---- MODULE Spec2Model ----
(***************************************************************************)
(* Model of the access-control cache and refresh protocol of LessonsPage   *)
(* (src/src/components/user/LessonsPage.tsx): the held access snapshot     *)
(* (userAccess, userRequests), the fetches that replace it, the catalog    *)
(* loads (loadSubjects) that annotate lessons from it, the triggers that   *)
(* start them, and the access-request workflow.                            *)
(*                                                                         *)
(* A backend query reads the store when it is sent; its response is        *)
(* applied by a later step, so responses of overlapping queries may be     *)
(* applied in either order.  A React effect that a state change schedules  *)
(* is part of the step that changes the state.                             *)
(***************************************************************************)
EXTENDS Integers, Sequences, FiniteSets, Bags, TLC

\* ---------------------------------------------------------------- bounds
MaxGen   == 3   \* refresh triggers (mount included) in one behaviour
MaxRows  == 1   \* rows of lesson_requests the backend comes to hold
MaxLoads == 4   \* catalog loads in flight at once
MaxPolls == 2   \* refresh triggers in a behaviour of the request workflow
MaxVideos   == 4   \* rows of lesson_videos
MaxPosition == 2   \* largest position of a video
MaxNotifications == 3   \* notification records fetched
MaxMarkCalls == 4   \* markNotificationRead calls made
MaxStoredRows == 2   \* rows of lesson_requests earlier sessions left

\* ------------------------------------------------------------ value sets
Lessons   == {"L1", "L2"}
NoUser    == "nouser"
Me        == "u1"
Other     == "u2"
Undefined == "undefined"
Null      == "null"
ServerStatuses == {"approved", "rejected"}

\* the catalog tables of the backend: one subject owning both lessons
DbSubjects == <<[id |-> "s1"]>>
DbLessons  == <<[id |-> "L1", subject_id |-> "s1"], [id |-> "L2", subject_id |-> "s1"]>>

VARIABLES
    mounted,          \* the component is mounted (its effects are registered)
    user,             \* useAuth().user?.id, NoUser while absent
    hidden,           \* document.hidden
    dbAccess,         \* backend table user_lesson_access: set of rows
    dbRequests,       \* backend table lesson_requests: sequence of rows
    userAccess,       \* state userAccess: Set of lesson ids
    userRequests,     \* state userRequests: Map lesson id -> status
    accGen, reqGen,   \* generation of the fetch whose result each half holds
    gen,              \* number of refresh triggers so far
    accFetches,       \* bag of loadUserAccess queries in flight
    reqFetches,       \* bag of loadUserRequests queries in flight
    loads,            \* bag of loadSubjects calls in flight
    subjects,         \* state subjects: the assembled catalog
    asm,              \* the snapshot pair the last assembly read
    loading,          \* state loading
    currentView, selectedSubject,
    clickTimer,       \* the pending 600 ms timer of handleContainerClick
    showRequestModal, requestingLesson,
    submit,           \* the submitLessonRequest call in flight
    toast,            \* the last acknowledgment shown
    history,          \* whether generation tags and asm are recorded
    catalogDb,        \* backend tables subjects, subject_lessons, lesson_videos
    lessonVideos,     \* the videos of each lesson of the assembled catalog
    notifications,    \* useData().notifications: the fetched notification records
    markCalls,        \* number of markNotificationRead calls made so far
    unmounted,        \* the component has been torn down
    signalTimers,     \* bag of pending post-signal delay timers
    markQueue,        \* the notifications a running markAllAsRead has yet to mark
    lastEvent         \* the last handler that ran ("off": not recorded)

vars == <<mounted, user, hidden, dbAccess, dbRequests, userAccess, userRequests,
          accGen, reqGen, gen, accFetches, reqFetches, loads, subjects, asm,
          loading, currentView, selectedSubject, clickTimer, showRequestModal,
          requestingLesson, submit, toast, history, catalogDb, lessonVideos,
          notifications, markCalls, markQueue, unmounted, signalTimers, lastEvent>>

\* ---------------------------------------------------------------- helpers
RECURSIVE SumOver(_, _)
SumOver(S, f) ==
    IF S = {} THEN 0
    ELSE LET x == CHOOSE y \in S : TRUE IN f[x] + SumOver(S \ {x}, f)

\* the bag b with every element e replaced by F(e)
MapBag(b, F(_)) ==
    [x \in {F(e) : e \in DOMAIN b} |->
        SumOver({e \in DOMAIN b : F(e) = x}, b)]

One(e) == SetToBag({e})

\* Map.get, Map.set (on a copy) and the JavaScript `v || d`
MapGet(m, k) == IF k \in DOMAIN m THEN m[k] ELSE Undefined
MapSet(m, k, v) == [x \in DOMAIN m \cup {k} |-> IF x = k THEN v ELSE m[x]]
Falsy(v) == v \in {Undefined, Null, ""}
OrElse(v, d) == IF Falsy(v) THEN d ELSE v
EmptyMap == [x \in {} |-> Undefined]

NoSubject == [id |-> "nosubject", lessonCount |-> 0, lessons |-> <<>>]
NoLesson  == [id |-> "nolesson", subjectId |-> "nosubject", hasAccess |-> FALSE,
              requestStatus |-> "none"]
NoTimer   == [kind |-> "none", subject |-> NoSubject, lesson |-> NoLesson]
NoSubmit  == [pc |-> "idle", user |-> NoUser, lesson |-> NoLesson, acc |-> {},
              req |-> EmptyMap, alias |-> FALSE, accGen |-> 0, reqGen |-> 0]
NoAsm     == [done |-> FALSE, acc |-> {}, req |-> EmptyMap, accGen |-> 0, reqGen |-> 0]

\* ------------------------------------------------------- backend queries
\* .from('user_lesson_access').select('lesson_id').eq('user_id', u), then
\* new Set(accessData.map(item => item.lesson_id))
AccessResponse(u) == {r.lesson_id : r \in {x \in dbAccess : x.user_id = u}}

\* .from('lesson_requests').select('lesson_id, status').eq('user_id', u): the
\* query states no order, so the rows come back in any order
RequestRows(u) == SelectSeq(dbRequests, LAMBDA r : r.user_id = u)
RequestsResponses(u) ==
    LET rows == RequestRows(u)
        n    == Len(rows)
    IN  {[i \in 1..n |-> rows[p[i]]] : p \in Permutations(1..n)}

\* new Map(requestsData.map(item => [item.lesson_id, item.status])): a later
\* entry of the same key replaces an earlier one
MapOfEntries(rows) ==
    [l \in {rows[i].lesson_id : i \in DOMAIN rows} |->
        LET last == CHOOSE i \in DOMAIN rows :
                        /\ rows[i].lesson_id = l
                        /\ \A j \in DOMAIN rows : rows[j].lesson_id = l => j <= i
        IN  rows[last].status]

\* the generation tag a query carries (0 where no history is recorded)
Tag(g) == IF history THEN g ELSE 0

\* --------------------------------------------------- access snapshot store
\* loadUserAccess: the query it sends (none without a user id)
loadUserAccess(u, g) ==
    IF u = NoUser THEN EmptyBag
    ELSE One([user |-> u, gen |-> Tag(g), data |-> AccessResponse(u)])

\* loadUserRequests: the query it sends, `rows` being the rows as returned
loadUserRequests(u, g, rows) ==
    IF u = NoUser THEN EmptyBag
    ELSE One([user |-> u, gen |-> Tag(g), data |-> MapOfEntries(rows)])

\* what setUserAccess receives when the query returns data
AccessWrite(prev, data) == data

\* what setUserRequests receives when the query returns data
RequestsWrite(prev, data) == data

\* the held access set after a loadUserAccess query ends with `outcome`
AccessAfter(prev, data, outcome) ==
    CASE outcome = "ok"     -> AccessWrite(prev, data)
      [] outcome = "error"  -> prev          \* console.error; return
      [] outcome = "thrown" -> {}            \* catch: setUserAccess(new Set())

\* the held request map after a loadUserRequests query ends with `outcome`
RequestsAfter(prev, data, outcome) ==
    CASE outcome = "ok"     -> RequestsWrite(prev, data)
      [] outcome = "error"  -> prev          \* console.error; return
      [] outcome = "thrown" -> EmptyMap      \* catch: setUserRequests(new Map())

FetchOutcomes == {"ok", "error", "thrown"}

\* ------------------------------------------------------ catalog assembler
\* getDefaultSubjects: the built-in catalog
getDefaultSubjects ==
    << [id |-> "sft", lessonCount |-> 0, lessons |-> <<>>],
       [id |-> "et",  lessonCount |-> 0, lessons |-> <<>>],
       [id |-> "ict", lessonCount |-> 0, lessons |-> <<>>] >>

\* hasAccess: userAccess.has(lesson.id)
HasAccessDenied(acc, req, id) == id \in acc /\ id \notin DOMAIN req
HasAccessOf(acc, req, id) == id \in acc

\* requestStatus: userRequests.get(lesson.id) || 'none'
RequestStatusNone(req, id) == "none"
RequestStatusOf(req, id) == OrElse(MapGet(req, id), "none")

\* the lesson object loadSubjects builds from a subject_lessons row
AnnotateLesson(lesson, subject, acc, req) ==
    [id            |-> lesson.id,
     subjectId     |-> subject.id,
     hasAccess     |-> HasAccessOf(acc, req, lesson.id),
     requestStatus |-> RequestStatusOf(req, lesson.id)]

\* organizedSubjects: every subject with the lessons whose subject_id is its id
OrganizeUnfiltered(subjectsData, lessonsData, acc, req) ==
    [s \in DOMAIN subjectsData |->
        LET subject == subjectsData[s]
            subjectLessons ==
                [i \in DOMAIN lessonsData |-> AnnotateLesson(lessonsData[i], subject, acc, req)]
        IN  [id |-> subject.id, lessonCount |-> Len(subjectLessons),
             lessons |-> subjectLessons]]

OrganizeSubjects(subjectsData, lessonsData, acc, req) ==
    [s \in DOMAIN subjectsData |->
        LET subject == subjectsData[s]
            rows    == SelectSeq(lessonsData, LAMBDA l : l.subject_id = subject.id)
            subjectLessons ==
                [i \in DOMAIN rows |-> AnnotateLesson(rows[i], subject, acc, req)]
        IN  [id |-> subject.id, lessonCount |-> Len(subjectLessons),
             lessons |-> subjectLessons]]

\* a null position of a lesson_videos row
NoPosition == -1

\* video.position || index: null and 0 are falsy
PositionOrIndex(position, index) ==
    IF position = NoPosition \/ position = 0 THEN index ELSE position

\* the key of the comparator (a.position || 0) - (b.position || 0)
SortKey(video) == IF video.position = 0 THEN 0 ELSE video.position

\* Array.prototype.sort is stable: the place of element i among vs
Rank(vs, i) ==
    Cardinality({j \in DOMAIN vs :
                    \/ SortKey(vs[j]) < SortKey(vs[i])
                    \/ SortKey(vs[j]) = SortKey(vs[i]) /\ j < i}) + 1

StableSort(vs) == [k \in DOMAIN vs |-> vs[CHOOSE i \in DOMAIN vs : Rank(vs, i) = k]]

\* lessonVideos: the rows of the lesson, mapped with their index among them
\* (from 0), then sorted
OrganizeVideos(videosData, lessonId) ==
    LET rows == SelectSeq(videosData, LAMBDA v : v.lesson_id = lessonId)
    IN  StableSort([i \in DOMAIN rows |->
                      [id |-> rows[i].id, lessonId |-> lessonId,
                       position |-> PositionOrIndex(rows[i].position, i - 1)]])

\* how the three queries of one loadSubjects call can end
LoadOutcomes == {"ok", "subjectsError", "lessonsError", "videosError", "thrown"}
Assembles(outcome) == outcome \in {"ok", "lessonsError", "videosError"}

\* what a loadSubjects call passes to setSubjects
loadSubjectsFallThrough(outcome, acc, req) ==
    CASE outcome = "thrown"       -> getDefaultSubjects
      [] outcome = "lessonsError" -> OrganizeSubjects(catalogDb.subjects, <<>>, acc, req)
      [] outcome = "subjectsError" ->
             OrganizeSubjects(getDefaultSubjects, catalogDb.lessons, acc, req)
      [] OTHER -> OrganizeSubjects(catalogDb.subjects, catalogDb.lessons, acc, req)

loadSubjectsResult(outcome, acc, req) ==
    CASE outcome = "subjectsError" -> getDefaultSubjects
      [] outcome = "thrown"        -> getDefaultSubjects
      [] outcome = "lessonsError"  -> OrganizeSubjects(catalogDb.subjects, <<>>, acc, req)
      [] outcome = "videosError"   ->
             OrganizeSubjects(catalogDb.subjects, catalogDb.lessons, acc, req)
      [] outcome = "ok"            ->
             OrganizeSubjects(catalogDb.subjects, catalogDb.lessons, acc, req)

\* the videos of the lessons of that catalog, by lesson id
lessonVideosResult(outcome) ==
    IF ~Assembles(outcome) THEN EmptyMap
    ELSE LET lessonsData == IF outcome = "lessonsError" THEN <<>> ELSE catalogDb.lessons
             videosData  == IF outcome = "videosError" THEN <<>> ELSE catalogDb.videos
             subjectIds  == {catalogDb.subjects[s].id : s \in DOMAIN catalogDb.subjects}
             shown == {lessonsData[i].id : i \in {j \in DOMAIN lessonsData :
                                                    lessonsData[j].subject_id \in subjectIds}}
         IN  [l \in shown |-> OrganizeVideos(videosData, l)]

\* a loadSubjects call: the closure it reads its snapshot from
LoadOf(u, acc, req, ag, rg, owner) ==
    [user |-> u, acc |-> acc, req |-> req, alias |-> TRUE,
     accGen |-> ag, reqGen |-> rg, owner |-> owner]

\* the two effects that depend on userAccess and userRequests: each calls
\* loadSubjects once when a user id is present
ReassemblyEffects(u, acc, req, ag, rg) ==
    IF u = NoUser THEN EmptyBag
    ELSE One(LoadOf(u, acc, req, ag, rg, "effect"))
         (+) One(LoadOf(u, acc, req, ag, rg, "effect"))

\* the Map object a closure holds is no longer the state's Map object
Detach(ld) == [ld EXCEPT !.alias = FALSE]

\* prev.set(id, 'pending') changes the Map object in place: every closure
\* that holds this object reads the new entry
Mutate(ld, id) ==
    IF ld.alias THEN [ld EXCEPT !.req = MapSet(ld.req, id, "pending"), !.alias = FALSE]
    ELSE ld

\* ----------------------------------------------------------- lessons view
\* getStatusBadge
getStatusBadge(lesson) ==
    IF lesson.hasAccess THEN "Owned"
    ELSE CASE lesson.requestStatus = "pending"  -> "Pending"
           [] lesson.requestStatus = "rejected" -> "Rejected"
           [] OTHER                             -> "Locked"

\* the condition of the card's onClick, of the Request Access button and of
\* handleLessonClick
Requestable(lesson) == ~lesson.hasAccess /\ lesson.requestStatus # "pending"

\* handleRequestAccess
handleRequestAccess(lesson) ==
    /\ requestingLesson' = lesson
    /\ showRequestModal' = TRUE

\* handleLessonClick
handleLessonClick(lesson) ==
    IF Requestable(lesson) THEN handleRequestAccess(lesson)
    ELSE UNCHANGED <<requestingLesson, showRequestModal>>

\* the modal's onClose
onClose ==
    /\ showRequestModal' = FALSE
    /\ requestingLesson' = NoLesson

ModalShown == showRequestModal /\ requestingLesson # NoLesson

\* the request map setUserRequests receives from submitLessonRequest
OptimisticNone(prev, id, outcome) == prev
OptimisticAlways(prev, id, outcome) == MapSet(prev, id, "pending")
OptimisticUpdate(prev, id, outcome) ==
    IF outcome = "ok" THEN MapSet(prev, id, "pending") ELSE prev

\* the acknowledgment submitLessonRequest shows
ToastOf(outcome) == IF outcome = "ok" THEN "success" ELSE "error"

\* ------------------------------------------------------ notification view
\* the handler that ran last, where handlers are recorded
Note(event) == IF lastEvent = "off" THEN "off" ELSE event

\* userNotifications: the records of the current user
userNotifications == SelectSeq(notifications, LAMBDA n : n.userId = user)

\* unreadNotifications
unreadNotifications == SelectSeq(userNotifications, LAMBDA n : ~n.readStatus)

UnreadCount == Len(unreadNotifications)

\* useData().markNotificationRead(id): the record `id` becomes read
markNotificationRead(records, id) ==
    [i \in DOMAIN records |->
        IF records[i].id = id THEN [records[i] EXCEPT !.readStatus = TRUE] ELSE records[i]]

\* the condition under which handleNotificationClick calls markNotificationRead
ShouldMarkAlways(notification) == TRUE
ShouldMark(notification) == ~notification.readStatus

\* ------------------------------------------------------------------ state
dbVars    == <<dbAccess, dbRequests>>
viewVars  == <<currentView, selectedSubject, clickTimer>>
modalVars == <<showRequestModal, requestingLesson>>
snapVars  == <<userAccess, userRequests, accGen, reqGen>>
fetchVars == <<accFetches, reqFetches, gen>>
loadVars  == <<loads, subjects, asm, loading>>
catVars   == <<catalogDb, lessonVideos>>
noteVars  == <<notifications, markCalls, markQueue>>
lifeVars  == <<unmounted, signalTimers, lastEvent>>

\* the rows of lesson_requests an earlier session left
InitRequests == {<<>>, <<[user_id |-> Me, lesson_id |-> "L1", status |-> "pending"]>>}

InitPage(rows, h) ==
    /\ history = h
    /\ mounted = FALSE
    /\ user = NoUser
    /\ hidden = FALSE
    /\ dbAccess \in SUBSET {[user_id |-> Me, lesson_id |-> "L2"]}
    /\ dbRequests = rows
    /\ userAccess = {}
    /\ userRequests = EmptyMap
    /\ accGen = 0 /\ reqGen = 0 /\ gen = 0
    /\ accFetches = EmptyBag
    /\ reqFetches = EmptyBag
    /\ loads = EmptyBag
    /\ subjects = <<>>
    /\ asm = NoAsm
    /\ loading = TRUE
    /\ currentView = "subjects"
    /\ selectedSubject = NoSubject
    /\ clickTimer = NoTimer
    /\ showRequestModal = FALSE
    /\ requestingLesson = NoLesson
    /\ submit = NoSubmit
    /\ toast = "none"

\* no notification fetched, nothing torn down, no signal pending
InitRest ==
    /\ lessonVideos = EmptyMap
    /\ notifications = <<>>
    /\ markCalls = 0
    /\ markQueue = <<>>
    /\ unmounted = FALSE
    /\ signalTimers = EmptyBag

InitWith(rows, h) ==
    /\ InitPage(rows, h)
    /\ InitRest
    /\ catalogDb = [subjects |-> DbSubjects, lessons |-> DbLessons, videos |-> <<>>]
    /\ lastEvent = "off"

Init == \E rows \in InitRequests : InitWith(rows, TRUE)

Room(n) == BagCardinality(loads) + n <= MaxLoads

\* ---------------------------------------------------------------- backend
\* an administrator decides a pending request
ServerDecide(i, st) ==
    /\ i \in DOMAIN dbRequests
    /\ dbRequests[i].status = "pending"
    /\ dbRequests' = [dbRequests EXCEPT ![i].status = st]
    /\ UNCHANGED <<mounted, user, hidden, dbAccess, snapVars, fetchVars, loadVars,
                   viewVars, modalVars, submit, toast, history, catVars, noteVars, lifeVars>>

\* an administrator grants a lesson (a separate write: the store has no
\* transaction across its collections)
ServerGrant(l) ==
    /\ [user_id |-> Me, lesson_id |-> l] \notin dbAccess
    /\ dbAccess' = dbAccess \cup {[user_id |-> Me, lesson_id |-> l]}
    /\ UNCHANGED <<mounted, user, hidden, dbRequests, snapVars, fetchVars, loadVars,
                   viewVars, modalVars, submit, toast, history, catVars, noteVars, lifeVars>>

\* ------------------------------------------------------ refresh scheduler
\* the "Initial data load" effect: what it sends for user id u
InitialLoadEffect(u, r1, r2) ==
    IF u = NoUser THEN UNCHANGED fetchVars
    ELSE /\ reqFetches' = reqFetches (+) loadUserRequests(u, gen + 1, r1)
                                     (+) loadUserRequests(u, gen + 1, r2)
         /\ gen' = gen + 1
         /\ UNCHANGED accFetches

\* loadUserAccess(); loadUserRequests(); called from a closure created when
\* the user id was u
RefreshAs(u, rows) ==
    /\ gen < MaxGen
    /\ accFetches' = accFetches (+) loadUserAccess(u, gen + 1)
    /\ reqFetches' = reqFetches (+) loadUserRequests(u, gen + 1, rows)
    /\ gen' = gen + 1

\* the same as the listeners and the interval call them: their effects list
\* user?.id, so their closures are of the current render
RefreshBoth(rows) == RefreshAs(user, rows)

\* first render of the component with user id u: every effect runs once
Mount(u) ==
    /\ ~mounted /\ ~unmounted
    /\ mounted' = TRUE
    /\ user' = u
    /\ \E r1, r2 \in RequestsResponses(u) : InitialLoadEffect(u, r1, r2)
    /\ loads' = loads (+) ReassemblyEffects(u, userAccess, userRequests, accGen, reqGen)
    /\ UNCHANGED <<hidden, dbVars, snapVars, subjects, asm, loading, viewVars,
                   modalVars, submit, toast, history, catVars, noteVars, lifeVars>>

\* useAuth delivers the user id after the first render: the effects that list
\* user?.id run again (the effect on [userAccess, userRequests] does not)
SignIn(u) ==
    /\ mounted /\ user = NoUser
    /\ user' = u
    /\ \E r1, r2 \in RequestsResponses(u) : InitialLoadEffect(u, r1, r2)
    /\ loads' = loads (+) One(LoadOf(u, userAccess, userRequests, accGen, reqGen, "effect"))
    /\ loading' = TRUE
    /\ UNCHANGED <<mounted, hidden, dbVars, snapVars, subjects, asm, viewVars,
                   modalVars, submit, toast, history, catVars, noteVars, lifeVars>>

UserAvailable == SignIn(Me)

\* the Sign Out button: useAuth then delivers no user.  The effects that list
\* user?.id run again and find no id; no state of the component is reset
signOut ==
    /\ mounted /\ user # NoUser
    /\ user' = NoUser
    /\ UNCHANGED <<mounted, hidden, dbVars, snapVars, fetchVars, loadVars, viewVars,
                   modalVars, submit, toast, history, catVars, noteVars, lifeVars>>

\* the component is removed: the cleanups of the effects run (removeEventListener
\* twice, clearInterval); the timeout of handleLessonAccessUpdate has no cleanup
Unmount ==
    /\ mounted
    /\ mounted' = FALSE
    /\ unmounted' = TRUE
    /\ UNCHANGED <<user, hidden, dbVars, snapVars, fetchVars, loadVars, viewVars,
                   modalVars, submit, toast, history, catVars, noteVars, signalTimers,
                   lastEvent>>

\* userId === user?.id in handleLessonAccessUpdate
SignalMatchesAny(userId) == TRUE
SignalMatches(userId) == userId = user

\* handleLessonAccessUpdate on a lessonAccessUpdated event naming userId: a
\* matching event starts the 1000 ms timer, whose callback holds the
\* loadUserAccess and loadUserRequests of this render
handleLessonAccessUpdate(userId) ==
    /\ mounted
    /\ signalTimers' = IF SignalMatches(userId)
                       THEN signalTimers (+) One([user |-> user])
                       ELSE signalTimers
    /\ lastEvent' = Note("signal")
    /\ UNCHANGED <<mounted, user, hidden, dbVars, snapVars, fetchVars, loadVars, viewVars,
                   modalVars, submit, toast, history, catVars, noteVars, unmounted>>

\* the 1000 ms timer fires: loadUserAccess(); loadUserRequests(); nothing
\* clears the timer, so it fires whatever became of the component
SignalTimerFires(t) ==
    /\ t \in BagToSet(signalTimers)
    /\ signalTimers' = signalTimers (-) One(t)
    /\ \E rows \in RequestsResponses(t.user) : RefreshAs(t.user, rows)
    /\ lastEvent' = Note("signalTimer")
    /\ UNCHANGED <<mounted, user, hidden, dbVars, snapVars, loadVars, viewVars,
                   modalVars, submit, toast, history, catVars, noteVars, unmounted>>

\* handleVisibilityChange, run on every visibilitychange event
handleVisibilityChange ==
    /\ mounted
    /\ hidden' = ~hidden
    /\ IF ~hidden' /\ user # NoUser
       THEN \E rows \in RequestsResponses(user) : RefreshBoth(rows)
       ELSE UNCHANGED fetchVars
    /\ lastEvent' = Note("visibility")
    /\ UNCHANGED <<mounted, user, dbVars, snapVars, loadVars, viewVars, modalVars,
                   submit, toast, history, catVars, noteVars, unmounted, signalTimers>>

\* !document.hidden && user?.id in the callback of the interval
TickRefreshesHidden == user # NoUser
TickRefreshes == ~hidden /\ user # NoUser

\* the callback of setInterval(..., 60000)
IntervalTick ==
    /\ mounted
    /\ IF TickRefreshes
       THEN \E rows \in RequestsResponses(user) : RefreshBoth(rows)
       ELSE UNCHANGED fetchVars
    /\ lastEvent' = Note("interval")
    /\ UNCHANGED <<mounted, user, hidden, dbVars, snapVars, loadVars, viewVars,
                   modalVars, submit, toast, history, catVars, noteVars, unmounted,
                   signalTimers>>

\* the loading flag after the effects of a snapshot change have run:
\* loadSubjects sets it, and returns before that without a user id
LoadingAfterEffects == IF user = NoUser THEN loading ELSE TRUE

\* the response of a loadUserAccess query arrives (a state update of a
\* component that is gone is dropped)
AccessDone(f, outcome) ==
    /\ f \in BagToSet(accFetches)
    /\ accFetches' = accFetches (-) One(f)
    /\ IF outcome = "error" \/ unmounted
       THEN UNCHANGED <<userAccess, accGen, loads, loading>>
       ELSE /\ Room(2)
            /\ userAccess' = AccessAfter(userAccess, f.data, outcome)
            /\ accGen' = f.gen
            /\ loads' = loads (+) ReassemblyEffects(user, userAccess', userRequests,
                                                    accGen', reqGen)
            /\ loading' = LoadingAfterEffects
    /\ UNCHANGED <<mounted, user, hidden, dbVars, userRequests, reqGen,
                   reqFetches, gen, subjects, asm, viewVars, modalVars, submit, toast, history, catVars, noteVars, lifeVars>>

\* the response of a loadUserRequests query arrives
RequestsDone(f, outcome) ==
    /\ f \in BagToSet(reqFetches)
    /\ reqFetches' = reqFetches (-) One(f)
    /\ IF outcome = "error" \/ unmounted
       THEN UNCHANGED <<userRequests, reqGen, loads, loading, submit>>
       ELSE /\ Room(2)
            /\ userRequests' = RequestsAfter(userRequests, f.data, outcome)
            /\ reqGen' = f.gen
            /\ loads' = MapBag(loads, Detach)
                        (+) ReassemblyEffects(user, userAccess, userRequests',
                                              accGen, reqGen')
            /\ loading' = LoadingAfterEffects
            /\ submit' = Detach(submit)
    /\ UNCHANGED <<mounted, user, hidden, dbVars, userAccess, accGen,
                   accFetches, gen, subjects, asm, viewVars, modalVars, toast, history, catVars, noteVars, lifeVars>>

\* the loading flag when a loadSubjects call ends: setLoading(false) before
\* the return of the fallback branch and in the finally block
LoadingStuckOnFailure(outcome) == ~Assembles(outcome)
LoadingWhenDone(outcome) == FALSE

\* a loadSubjects call ends: setSubjects, then setLoading(false); the call
\* submitLessonRequest awaits then returns to the modal, which closes
LoadDone(ld, outcome) ==
    /\ ld \in BagToSet(loads)
    /\ loads' = loads (-) One(ld)
    /\ IF unmounted
       THEN UNCHANGED <<subjects, lessonVideos, asm, loading, modalVars, submit>>
       ELSE /\ subjects' = loadSubjectsResult(outcome, ld.acc, ld.req)
            /\ lessonVideos' = lessonVideosResult(outcome)
            /\ asm' = IF history /\ Assembles(outcome)
                      THEN [done |-> TRUE, acc |-> ld.acc, req |-> ld.req,
                            accGen |-> ld.accGen, reqGen |-> ld.reqGen]
                      ELSE asm
            /\ loading' = LoadingWhenDone(outcome)
            /\ IF ld.owner = "submit"
               THEN onClose /\ submit' = NoSubmit
               ELSE UNCHANGED <<modalVars, submit>>
    /\ UNCHANGED <<mounted, user, hidden, dbVars, snapVars, fetchVars, viewVars, toast,
                   history, catalogDb, noteVars, lifeVars>>

\* ------------------------------------------------------------------ views
\* handleContainerClick on a subject card: the action runs 600 ms later
ClickSubject(i) ==
    /\ mounted /\ ~loading
    /\ currentView = "subjects"
    /\ i \in DOMAIN subjects
    /\ clickTimer = NoTimer
    /\ clickTimer' = [kind |-> "subject", subject |-> subjects[i], lesson |-> NoLesson]
    /\ UNCHANGED <<mounted, user, hidden, dbVars, snapVars, fetchVars, loadVars,
                   currentView, selectedSubject, modalVars, submit, toast, history, catVars, noteVars, lifeVars>>

\* the onClick of a lesson card of the open subject
ClickLessonCard(i) ==
    /\ mounted /\ ~loading
    /\ currentView = "lessons" /\ selectedSubject # NoSubject
    /\ i \in DOMAIN selectedSubject.lessons
    /\ clickTimer = NoTimer
    /\ Requestable(selectedSubject.lessons[i])
    /\ clickTimer' = [kind |-> "lesson", subject |-> NoSubject,
                      lesson |-> selectedSubject.lessons[i]]
    /\ UNCHANGED <<mounted, user, hidden, dbVars, snapVars, fetchVars, loadVars,
                   currentView, selectedSubject, modalVars, submit, toast, history, catVars, noteVars, lifeVars>>

\* the Request Access button of a lesson card (rendered when requestable)
ClickRequestButton(i) ==
    /\ mounted /\ ~loading
    /\ currentView = "lessons" /\ selectedSubject # NoSubject
    /\ i \in DOMAIN selectedSubject.lessons
    /\ Requestable(selectedSubject.lessons[i])
    /\ handleLessonClick(selectedSubject.lessons[i])
    /\ UNCHANGED <<mounted, user, hidden, dbVars, snapVars, fetchVars, loadVars,
                   viewVars, submit, toast, history, catVars, noteVars, lifeVars>>

\* the timer of handleContainerClick fires: handleSubjectClick or handleLessonClick
ClickTimerFires ==
    /\ clickTimer # NoTimer
    /\ clickTimer' = NoTimer
    /\ IF clickTimer.kind = "subject"
       THEN /\ selectedSubject' = clickTimer.subject
            /\ currentView' = "lessons"
            /\ UNCHANGED modalVars
       ELSE /\ handleLessonClick(clickTimer.lesson)
            /\ UNCHANGED <<selectedSubject, currentView>>
    /\ UNCHANGED <<mounted, user, hidden, dbVars, snapVars, fetchVars, loadVars,
                   submit, toast, history, catVars, noteVars, lifeVars>>

\* handleBackToSubjects
handleBackToSubjects ==
    /\ mounted /\ ~loading
    /\ currentView # "subjects"
    /\ selectedSubject' = NoSubject
    /\ currentView' = "subjects"
    /\ UNCHANGED <<mounted, user, hidden, dbVars, snapVars, fetchVars, loadVars,
                   clickTimer, modalVars, submit, toast, history, catVars, noteVars, lifeVars>>

\* the close button of the request modal
CloseModal ==
    /\ mounted /\ ~loading
    /\ ModalShown
    /\ onClose
    /\ UNCHANGED <<mounted, user, hidden, dbVars, snapVars, fetchVars, loadVars,
                   viewVars, submit, toast, history, catVars, noteVars, lifeVars>>

\* -------------------------------------------------------- request workflow
\* the form of the modal is submitted: submitLessonRequest sends the insert
SubmitForm ==
    /\ mounted /\ ~loading
    /\ ModalShown
    /\ submit.pc = "idle"
    /\ Len(dbRequests) < MaxRows
    /\ IF user = NoUser
       THEN onClose /\ UNCHANGED submit
       ELSE /\ submit' = [pc |-> "inserting", user |-> user, lesson |-> requestingLesson,
                          acc |-> userAccess, req |-> userRequests, alias |-> TRUE,
                          accGen |-> accGen, reqGen |-> reqGen]
            /\ UNCHANGED modalVars
    /\ UNCHANGED <<mounted, user, hidden, dbVars, snapVars, fetchVars, loadVars,
                   viewVars, toast, history, catVars, noteVars, lifeVars>>

\* the insert ends: the rest of submitLessonRequest and the effects of its
\* state change
InsertDone(outcome) ==
    /\ submit.pc = "inserting"
    /\ toast' = ToastOf(outcome)
    /\ userRequests' = OptimisticUpdate(userRequests, submit.lesson.id, outcome)
    /\ IF outcome = "ok"
       THEN /\ Room(3)
            /\ dbRequests' = Append(dbRequests,
                   [user_id |-> submit.user, lesson_id |-> submit.lesson.id,
                    status |-> "pending"])
            /\ LET mine == Mutate(submit, submit.lesson.id)
               IN  /\ submit' = [mine EXCEPT !.pc = "reloading"]
                   /\ loads' = MapBag(loads, LAMBDA ld : Mutate(ld, submit.lesson.id))
                        (+) One([LoadOf(submit.user, mine.acc, mine.req, mine.accGen,
                                        mine.reqGen, "submit") EXCEPT !.alias = FALSE])
                        (+) ReassemblyEffects(user, userAccess, userRequests',
                                              accGen, reqGen)
            /\ loading' = TRUE
                    /\ UNCHANGED modalVars
       ELSE /\ onClose
            /\ submit' = NoSubmit
            /\ UNCHANGED <<dbRequests, loads, loading>>
    /\ UNCHANGED <<mounted, user, hidden, dbAccess, userAccess, accGen, reqGen,
                   fetchVars, subjects, asm, viewVars, history, catVars, noteVars, lifeVars>>

\* ---------------------------------------------------------- specification
\* The snapshot store, the refresh scheduler and the assembly that follows
\* each snapshot change.  No catalog load writes a variable the store or the
\* scheduler reads, so the loads a step starts finish (here: with all three
\* queries answered) before the next step of the store.
Quiet == loads = EmptyBag

Next ==
    \/ Quiet /\ \E u \in {NoUser, Me} : Mount(u)
    \/ Quiet /\ UserAvailable
    \/ Quiet /\ handleVisibilityChange
    \/ Quiet /\ IntervalTick
    \/ Quiet /\ \E f \in BagToSet(accFetches), o \in FetchOutcomes : AccessDone(f, o)
    \/ Quiet /\ \E f \in BagToSet(reqFetches), o \in FetchOutcomes : RequestsDone(f, o)
    \/ Quiet /\ \E i \in 1..MaxRows, st \in ServerStatuses : ServerDecide(i, st)
    \/ Quiet /\ \E l \in Lessons : ServerGrant(l)
    \/ \E ld \in BagToSet(loads) : LoadDone(ld, "ok")

Spec == Init /\ [][Next]_vars

\* The request workflow: the views, the modal and submitLessonRequest, over
\* the snapshot that the mount and one later interval tick fetch from a
\* backend an earlier session and the administrator left as InitRequest
\* draws it.
InitRequest == InitWith(<<>>, FALSE)

Settled == Quiet /\ accFetches = EmptyBag /\ reqFetches = EmptyBag

NextRequest ==
    \/ Mount(Me)
    \/ (gen < MaxPolls /\ IntervalTick)
    \/ \E f \in BagToSet(accFetches), o \in FetchOutcomes : AccessDone(f, o)
    \/ \E f \in BagToSet(reqFetches), o \in FetchOutcomes : RequestsDone(f, o)
    \/ \E ld \in BagToSet(loads), o \in LoadOutcomes : LoadDone(ld, o)
    \/ \E i \in 1..MaxRows, st \in ServerStatuses : ServerDecide(i, st)
    \/ Settled /\ \E i \in 1..3 : ClickSubject(i)
    \/ Settled /\ \E i \in 1..Len(DbLessons) : ClickLessonCard(i)
    \/ Settled /\ \E i \in 1..Len(DbLessons) : ClickRequestButton(i)
    \/ ClickTimerFires
    \/ Settled /\ handleBackToSubjects
    \/ Settled /\ CloseModal
    \/ Settled /\ SubmitForm
    \/ \E o \in FetchOutcomes : InsertDone(o)

SpecRequest == InitRequest /\ [][NextRequest]_vars

\* The life of the component: sign-in and sign-out while it is mounted, the
\* refresh triggers, the access-change signal with its delay timer, and the
\* teardown.  A signal is taken only while the refresh budget has room for
\* its timer, so that a timer that is due can always fire.
Budget == gen + BagCardinality(signalTimers) < MaxGen

InitLifecycle ==
    /\ InitPage(<<[user_id |-> Me, lesson_id |-> "L1", status |-> "pending"]>>, FALSE)
    /\ InitRest
    /\ catalogDb = [subjects |-> DbSubjects, lessons |-> DbLessons, videos |-> <<>>]
    /\ lastEvent = "none"

NextLifecycle ==
    \/ \E u \in {NoUser, Me} : Mount(u)
    \/ Quiet /\ Budget /\ \E u \in {Me, Other} : SignIn(u)
    \/ Quiet /\ signOut
    \/ Quiet /\ Budget /\ handleVisibilityChange
    \/ Quiet /\ Budget /\ IntervalTick
    \/ Quiet /\ Budget /\ \E u \in {Me, Other} : handleLessonAccessUpdate(u)
    \/ Quiet /\ \E t \in BagToSet(signalTimers) : SignalTimerFires(t)
    \/ Quiet /\ Unmount
    \/ Quiet /\ \E f \in BagToSet(accFetches), o \in FetchOutcomes : AccessDone(f, o)
    \/ Quiet /\ \E f \in BagToSet(reqFetches), o \in FetchOutcomes : RequestsDone(f, o)
    \/ \E ld \in BagToSet(loads) : LoadDone(ld, "ok")

SpecLifecycle == InitLifecycle /\ [][NextLifecycle]_vars

\* the runtime fires a timer that is due
SpecLifecycleFair ==
    SpecLifecycle /\ WF_vars(\E t \in BagToSet(signalTimers) : SignalTimerFires(t))

\* The catalog loads of a mounted component, each ending in any of the ways
\* its three queries can end.  A query that was sent is answered, so a load
\* in flight comes to its end.
NextLoad ==
    \/ \E u \in {NoUser, Me} : Mount(u)
    \/ UserAvailable
    \/ (gen < MaxPolls /\ IntervalTick)
    \/ \E f \in BagToSet(accFetches), o \in FetchOutcomes : AccessDone(f, o)
    \/ \E f \in BagToSet(reqFetches), o \in FetchOutcomes : RequestsDone(f, o)
    \/ \E ld \in BagToSet(loads), o \in LoadOutcomes : LoadDone(ld, o)

SpecLoad ==
    /\ \E rows \in InitRequests : InitWith(rows, FALSE)
    /\ [][NextLoad]_vars
    /\ WF_vars(\E ld \in BagToSet(loads), o \in LoadOutcomes : LoadDone(ld, o))

\* The request fetch over a backend that earlier sessions left with several
\* rows, in the order of their creation: the client inserts a row for each
\* submission, and a lesson whose request was rejected can be requested again.
RequestTables ==
    LET cols == Lessons \X {"pending", "approved", "rejected"}
        seqs == UNION {[1..n -> cols] : n \in 0..MaxStoredRows}
    IN  {[i \in DOMAIN f |-> [user_id |-> Me, lesson_id |-> f[i][1], status |-> f[i][2]]] :
            f \in seqs}

InitRows == \E rows \in RequestTables : InitWith(rows, FALSE)

NextRows ==
    \/ Mount(Me)
    \/ Quiet /\ \E f \in BagToSet(reqFetches) : RequestsDone(f, "ok")
    \/ \E ld \in BagToSet(loads) : LoadDone(ld, "ok")

SpecRows == InitRows /\ [][NextRows]_vars

\* A submission racing with the refresh triggers: the form can be submitted
\* while queries of the snapshot are in flight.  The backend starts without
\* request rows, every query succeeds, and the administrator decides nothing.
NextRace ==
    \/ Mount(Me)
    \/ Quiet /\ gen < MaxPolls /\ IntervalTick
    \/ Quiet /\ \E f \in BagToSet(accFetches) : AccessDone(f, "ok")
    \/ Quiet /\ \E f \in BagToSet(reqFetches) : RequestsDone(f, "ok")
    \/ \E ld \in BagToSet(loads) : LoadDone(ld, "ok")
    \/ Quiet /\ \E i \in 1..3 : ClickSubject(i)
    \/ Quiet /\ \E i \in 1..Len(DbLessons) : ClickRequestButton(i)
    \/ Quiet /\ ClickTimerFires
    \/ Quiet /\ SubmitForm
    \/ Quiet /\ \E o \in FetchOutcomes : InsertDone(o)

SpecRace == InitRequest /\ [][NextRace]_vars

\* ---------------------------------------------------- notifications page
\* the auth provider delivers the user id to a page other than LessonsPage
AuthResolves(u) ==
    /\ ~mounted /\ user = NoUser
    /\ user' = u
    /\ UNCHANGED <<mounted, hidden, dbVars, snapVars, fetchVars, loadVars, viewVars,
                   modalVars, submit, toast, history, catVars, noteVars, lifeVars>>

\* handleNotificationClick on the i-th notification shown
handleNotificationClick(i) ==
    /\ i \in DOMAIN userNotifications
    /\ markCalls < MaxMarkCalls
    /\ LET notification == userNotifications[i]
       IN  IF ShouldMark(notification)
           THEN /\ markCalls' = markCalls + 1
                /\ notifications' = markNotificationRead(notifications, notification.id)
           ELSE UNCHANGED <<notifications, markCalls>>
    /\ lastEvent' = Note("handleNotificationClick")
    /\ UNCHANGED <<mounted, user, hidden, dbVars, snapVars, fetchVars, loadVars, viewVars,
                   modalVars, submit, toast, history, catVars, markQueue, unmounted,
                   signalTimers>>

\* markAllAsRead: it iterates over the unread notifications it was created with
markAllAsRead ==
    /\ markQueue = <<>>
    /\ unreadNotifications # <<>>
    /\ markQueue' = [i \in DOMAIN unreadNotifications |-> unreadNotifications[i].id]
    /\ lastEvent' = Note("markAllAsRead")
    /\ UNCHANGED <<mounted, user, hidden, dbVars, snapVars, fetchVars, loadVars, viewVars,
                   modalVars, submit, toast, history, catVars, notifications, markCalls,
                   unmounted, signalTimers>>

\* one turn of its loop: await markNotificationRead(notification.id); an
\* exception ends the loop
MarkAllStep(outcome) ==
    /\ markQueue # <<>>
    /\ markCalls < MaxMarkCalls
    /\ markCalls' = markCalls + 1
    /\ IF outcome = "ok"
       THEN /\ notifications' = markNotificationRead(notifications, Head(markQueue))
            /\ markQueue' = Tail(markQueue)
            /\ toast' = IF Tail(markQueue) = <<>> THEN "success" ELSE toast
       ELSE /\ markQueue' = <<>>
            /\ toast' = "error"
            /\ UNCHANGED notifications
    /\ UNCHANGED <<mounted, user, hidden, dbVars, snapVars, fetchVars, loadVars, viewVars,
                   modalVars, submit, history, catVars, lifeVars>>

NotificationTables ==
    LET cols == {Me, Other} \X BOOLEAN
        seqs == UNION {[1..n -> cols] : n \in 0..MaxNotifications}
    IN  {[i \in DOMAIN f |-> [id |-> i, userId |-> f[i][1], readStatus |-> f[i][2]]] :
            f \in seqs}

InitNotifications ==
    /\ InitPage(<<>>, FALSE)
    /\ catalogDb = [subjects |-> DbSubjects, lessons |-> DbLessons, videos |-> <<>>]
    /\ lessonVideos = EmptyMap
    /\ notifications \in NotificationTables
    /\ markCalls = 0
    /\ markQueue = <<>>
    /\ unmounted = FALSE
    /\ signalTimers = EmptyBag
    /\ lastEvent = "none"

NextNotifications ==
    \/ \E u \in {Me, Other} : AuthResolves(u)
    \/ \E i \in 1..MaxNotifications : handleNotificationClick(i)
    \/ markAllAsRead
    \/ \E o \in {"ok", "thrown"} : MarkAllStep(o)

SpecNotifications == InitNotifications /\ [][NextNotifications]_vars

\* The catalog assembler over the tables the backend can hold.  The rows of
\* lesson_videos come back as the query orders them: by position ascending,
\* null positions last.
QueryOrder(position) == IF position = NoPosition THEN MaxPosition + 1 ELSE position

VideoTables ==
    LET cols == (0..MaxPosition \cup {NoPosition}) \X Lessons
        seqs == UNION {[1..n -> cols] : n \in 0..MaxVideos}
    IN  {[i \in DOMAIN f |-> [id |-> i, lesson_id |-> f[i][2], position |-> f[i][1]]] :
            f \in {g \in seqs : \A i, j \in DOMAIN g :
                        i < j => QueryOrder(g[i][1]) <= QueryOrder(g[j][1])}}

SubjectTables == {<<>>, <<[id |-> "s1"]>>, <<[id |-> "s1"], [id |-> "s2"]>>}

LessonTables ==
    LET cols == Lessons \X {"s1", "s2", "sft"}
        seqs == UNION {[1..n -> cols] : n \in 0..Cardinality(Lessons)}
    IN  {[i \in DOMAIN f |-> [id |-> f[i][1], subject_id |-> f[i][2]]] :
            f \in {g \in seqs : \A i, j \in DOMAIN g : i # j => g[i][1] # g[j][1]}}

CatalogTables ==
    {[subjects |-> DbSubjects, lessons |-> DbLessons, videos |-> v] : v \in VideoTables}
    \cup {[subjects |-> sb, lessons |-> ls, videos |-> <<>>] :
              sb \in SubjectTables, ls \in LessonTables}

InitCatalog ==
    /\ InitPage(<<[user_id |-> Me, lesson_id |-> "L1", status |-> "pending"]>>, FALSE)
    /\ InitRest
    /\ catalogDb \in CatalogTables
    /\ lastEvent = "off"

NextCatalog ==
    \/ Mount(Me)
    \/ Quiet /\ \E f \in BagToSet(reqFetches) : RequestsDone(f, "ok")
    \/ \E ld \in BagToSet(loads), o \in LoadOutcomes : LoadDone(ld, o)

SpecCatalog == InitCatalog /\ [][NextCatalog]_vars

\* ------------------------------------------------------------------ claims
Failures == {"error", "thrown"}

\* the lessons of the catalog `subjects` holds
CatalogLessons ==
    UNION {{subjects[s].lessons[i] : i \in DOMAIN subjects[s].lessons} : s \in DOMAIN subjects}

\* C1: a snapshot query that fails (an error result or an exception) leaves
\* its half of the snapshot empty: the access set after a failed access
\* query, the request map after a failed request query.
C1_FailedFetchResetsHalf ==
    [][ /\ \A f \in BagToSet(accFetches), o \in Failures :
              AccessDone(f, o) => userAccess' = {}
        /\ \A f \in BagToSet(reqFetches), o \in Failures :
              RequestsDone(f, o) => userRequests' = EmptyMap ]_vars

\* C2: the step in which the mounted component first has a user id sends
\* exactly one access query and exactly one request query.
C2_MountFetchesEachHalfOnce ==
    [][ (mounted' /\ user' # NoUser /\ (~mounted \/ user = NoUser)) =>
            /\ BagCardinality(accFetches') = BagCardinality(accFetches) + 1
            /\ BagCardinality(reqFetches') = BagCardinality(reqFetches) + 1 ]_vars

\* C3: when a query of one half completes that overlapped another query of
\* the same half (one is still in flight, or one sent no earlier has already
\* completed), the held half is exactly the result of the completing query:
\* its rows if it returned rows, the empty half if it failed.  Nothing of the
\* other query's result stays or is merged in.
C3_LastCompletedFetchWins ==
    [][ /\ \A f \in BagToSet(accFetches), o \in FetchOutcomes :
              ((BagCardinality(accFetches) > 1 \/ f.gen <= accGen) /\ AccessDone(f, o)) =>
                  userAccess' = IF o = "ok" THEN f.data ELSE {}
        /\ \A f \in BagToSet(reqFetches), o \in FetchOutcomes :
              ((BagCardinality(reqFetches) > 1 \/ f.gen <= reqGen) /\ RequestsDone(f, o)) =>
                  userRequests' = IF o = "ok" THEN f.data ELSE EmptyMap ]_vars

\* C4: every assembly reads a consistent pair: it never combines a half
\* written by a refresh that fetched both halves with a half of another
\* generation.  (Generation 1 is the mount, later generations fetch both.)
C4_ConsistentPair ==
    asm.done => (asm.accGen = asm.reqGen \/ (asm.accGen <= 1 /\ asm.reqGen <= 1))

\* C5: when the insert of a request for lesson X succeeds, the request map
\* maps X to 'pending' in the same step, and success is acknowledged.
C5_OptimisticPending ==
    [][ InsertDone("ok") =>
            /\ MapGet(userRequests', submit.lesson.id) = "pending"
            /\ toast' = "success" ]_vars

\* C5 witness: an insert has succeeded and the request map holds 'pending'
\* for its lesson, which it did not hold when the form was submitted.
C5_Witness ==
    /\ submit.pc = "reloading"
    /\ MapGet(userRequests, submit.lesson.id) = "pending"
    /\ submit.lesson.requestStatus # "pending"

\* C6: when the insert fails (error result or exception) the request map,
\* the access set and the catalog are unchanged, and an error is acknowledged.
C6_NoUpdateOnFailure ==
    [][ \A o \in Failures : InsertDone(o) =>
            /\ UNCHANGED <<userRequests, userAccess, subjects>>
            /\ toast' = "error" ]_vars

\* C6 witness: a submission has failed; the lesson it was for has no entry in
\* the request map.
C6_Witness ==
    /\ toast = "error"
    /\ submit.pc = "idle"
    /\ DOMAIN userRequests = {}
    /\ CatalogLessons # {}

\* C7: the step in which an insert succeeds sends a query for each half of
\* the snapshot.
C7_SubmitRefetchesBoth ==
    [][ InsertDone("ok") =>
            /\ BagCardinality(accFetches') > BagCardinality(accFetches)
            /\ BagCardinality(reqFetches') > BagCardinality(reqFetches) ]_vars

\* C8: the request form is open, and a click that opens it is pending, only
\* for a lesson shown without access whose request status is 'none' or
\* 'rejected'.
C8_OpensOnlyForNoneOrRejected ==
    /\ requestingLesson # NoLesson =>
          /\ ~requestingLesson.hasAccess
          /\ requestingLesson.requestStatus \in {"none", "rejected"}
    /\ clickTimer.kind = "lesson" =>
          /\ ~clickTimer.lesson.hasAccess
          /\ clickTimer.lesson.requestStatus \in {"none", "rejected"}

\* C9: every lesson of the assembled catalog whose id is in the access set
\* the assembly read has hasAccess, shows the Owned badge and is not
\* requestable, whatever the request map holds for it.
C9_AccessOverridesRequest ==
    \A lesson \in CatalogLessons :
        lesson.id \in asm.acc =>
            /\ lesson.hasAccess
            /\ getStatusBadge(lesson) = "Owned"
            /\ ~Requestable(lesson)

\* C9 witness: an assembled lesson is in the access set and has an entry in
\* the request map the assembly read.
C9_Witness ==
    \E lesson \in CatalogLessons :
        lesson.id \in asm.acc /\ lesson.id \in DOMAIN asm.req

\* C10: every lesson of the assembled catalog whose id is not in the access
\* set has the request status the request map holds for it, 'none' without
\* an entry.
C10_StatusFromRequestMap ==
    \A lesson \in CatalogLessons :
        lesson.id \notin asm.acc =>
            lesson.requestStatus =
                IF lesson.id \in DOMAIN asm.req THEN asm.req[lesson.id] ELSE "none"

\* C10 witness: of two assembled lessons outside the access set one has an
\* entry in the request map and the other has none.
C10_Witness ==
    \E a, b \in CatalogLessons :
        /\ a.id \notin asm.acc /\ b.id \notin asm.acc
        /\ a.id \in DOMAIN asm.req /\ a.requestStatus = asm.req[a.id]
        /\ b.id \notin DOMAIN asm.req /\ b.requestStatus = "none"

\* C11: the videos of every assembled lesson are the lesson's rows in a
\* stable ascending order of position, a null position counting as the
\* row's index (from 0) among the lesson's rows.
C11_VideosStableByPosition ==
    \A l \in DOMAIN lessonVideos :
        LET rows == SelectSeq(catalogDb.videos, LAMBDA v : v.lesson_id = l)
            key(i) == IF rows[i].position = NoPosition THEN i - 1 ELSE rows[i].position
            place(i) == Cardinality({j \in DOMAIN rows :
                                        \/ key(j) < key(i)
                                        \/ key(j) = key(i) /\ j < i}) + 1
        IN  lessonVideos[l] # <<>> =>
                /\ Len(lessonVideos[l]) = Len(rows)
                /\ \A i \in DOMAIN rows : lessonVideos[l][place(i)].id = rows[i].id

\* C12: a catalog load whose subject query fails sets the catalog to the
\* three subjects sft, et, ict, each with no lessons and lessonCount 0,
\* whatever the lesson table and the snapshot hold.
C12_FallbackOnSubjectError ==
    [][ \A ld \in BagToSet(loads) : LoadDone(ld, "subjectsError") =>
            /\ [i \in DOMAIN subjects' |-> subjects'[i].id] = <<"sft", "et", "ict">>
            /\ \A i \in DOMAIN subjects' :
                  subjects'[i].lessons = <<>> /\ subjects'[i].lessonCount = 0 ]_vars

\* C12 witness: the fallback catalog is shown while the lesson table holds a
\* lesson of subject sft and the request map holds an entry.
C12_Witness ==
    /\ Len(subjects) = 3
    /\ subjects[1].id = "sft"
    /\ \E i \in DOMAIN catalogDb.lessons : catalogDb.lessons[i].subject_id = "sft"
    /\ userRequests # EmptyMap

\* C13: every lesson of the catalog is listed under the subject its row names,
\* and a lesson whose row names no fetched subject is listed nowhere.
C13_LessonsUnderOwnSubject ==
    LET rows == {catalogDb.lessons[i] : i \in DOMAIN catalogDb.lessons}
        subjectIds == {catalogDb.subjects[s].id : s \in DOMAIN catalogDb.subjects}
    IN  /\ \A s \in DOMAIN subjects : \A i \in DOMAIN subjects[s].lessons :
              \E r \in rows : /\ r.id = subjects[s].lessons[i].id
                              /\ r.subject_id = subjects[s].id
        /\ \A r \in rows : r.subject_id \notin subjectIds =>
              \A lesson \in CatalogLessons : lesson.id # r.id

\* C13 witness: the assembled catalog lists a lesson while the lesson table
\* also holds a lesson of a subject that was not fetched.
C13_Witness ==
    /\ CatalogLessons # {}
    /\ \E i \in DOMAIN catalogDb.lessons :
          catalogDb.lessons[i].subject_id \notin
              {catalogDb.subjects[s].id : s \in DOMAIN catalogDb.subjects}

\* C14: a click on a notification that is already read makes no
\* markNotificationRead call and changes no record, and marking an
\* already-read notification read (as markAllAsRead may) changes no record:
\* in both cases the unread count of the current user stays what it was.
C14_MarkReadIdempotent ==
    [][ /\ \A i \in DOMAIN userNotifications :
              (userNotifications[i].readStatus /\ handleNotificationClick(i)) =>
                  /\ UNCHANGED <<notifications, markCalls>>
                  /\ UnreadCount' = UnreadCount
        /\ (/\ MarkAllStep("ok")
            /\ \E i \in DOMAIN notifications :
                  notifications[i].id = Head(markQueue) /\ notifications[i].readStatus) =>
                  /\ UNCHANGED notifications
                  /\ UnreadCount' = UnreadCount ]_vars

\* C14 witness: a click was the last handler to run, no mark-read call has
\* been made, and every notification of the current user is read: the click
\* was on a notification already read.
C14_Witness ==
    /\ lastEvent = "handleNotificationClick"
    /\ markCalls = 0
    /\ userNotifications # <<>>
    /\ UnreadCount = 0

\* C15: once the component is torn down, no step initiates a refresh: no
\* query of either half is sent and no refresh trigger is counted.
C15_NoRefreshAfterTeardown ==
    [][unmounted =>
          /\ BagCardinality(accFetches') <= BagCardinality(accFetches)
          /\ BagCardinality(reqFetches') <= BagCardinality(reqFetches)
          /\ gen' = gen]_vars

\* C16: a tick of the interval sends a query of each half if the component is
\* mounted, the document is visible and a user id is present, and otherwise
\* sends nothing; after teardown no step is a tick that sends a query.
C16_TickSuppressedWhileHidden ==
    [][IntervalTick =>
          IF mounted /\ ~hidden /\ user # NoUser
          THEN /\ BagCardinality(accFetches') = BagCardinality(accFetches) + 1
               /\ BagCardinality(reqFetches') = BagCardinality(reqFetches) + 1
               /\ \A f \in BagToSet(accFetches') : f \in BagToSet(accFetches) \/ f.user = user
               /\ \A f \in BagToSet(reqFetches') : f \in BagToSet(reqFetches) \/ f.user = user
          ELSE UNCHANGED fetchVars]_vars

\* C16 witness: the interval ticked while the document was hidden and a user
\* was signed in, and the only queries ever sent are those of the sign-in.
C16_Witness ==
    /\ lastEvent = "interval"
    /\ mounted /\ hidden /\ user = Me
    /\ gen = 1

\* C17: a signal sends no query and changes no half of the snapshot when it
\* arrives; it starts a timer exactly if it names the current user; every
\* timer that fires sends one query of each half for that user; and a timer
\* that was started does fire.
C17_SignalRefreshesAfterDelay ==
    /\ [][ /\ \A u \in {Me, Other} : handleLessonAccessUpdate(u) =>
                 /\ UNCHANGED <<fetchVars, snapVars>>
                 /\ signalTimers' = IF u = user
                                    THEN signalTimers (+) One([user |-> u])
                                    ELSE signalTimers
           /\ \A t \in BagToSet(signalTimers) : SignalTimerFires(t) =>
                 /\ accFetches' = accFetches (+) One([user |-> t.user, gen |-> 0,
                                                      data |-> AccessResponse(t.user)])
                 /\ BagCardinality(reqFetches') = BagCardinality(reqFetches) + 1
                 /\ \A f \in BagToSet(reqFetches') : f \in BagToSet(reqFetches) \/ f.user = t.user
                 /\ UNCHANGED snapVars ]_vars
    /\ \A n \in 1..MaxGen :
          (BagCardinality(signalTimers) = n) ~> (BagCardinality(signalTimers) < n)

\* C17 witness: the timer of a signal naming the current user has fired and
\* the query of the access set (which no other trigger has sent) is in flight
\* together with a query of the request map.
C17_Witness ==
    /\ lastEvent = "signalTimer"
    /\ mounted /\ user = Me
    /\ gen = 2
    /\ BagCardinality(accFetches) = 1
    /\ \E f \in BagToSet(reqFetches) : f.user = Me

\* C18: a step that changes the held access set or the held request map
\* starts a catalog load that reads the new values of both.
C18_ChangeIsReassembled ==
    [][(userAccess' # userAccess \/ userRequests' # userRequests) =>
          \E ld \in BagToSet(loads') :
              /\ ld.acc = userAccess' /\ ld.req = userRequests'
              /\ BagCardinality(loads') > BagCardinality(loads)]_vars

\* C19: while another user than the one the backend holds rows for is signed
\* in, the held snapshot is empty and so is the snapshot of every catalog
\* load made for that user.
C19_SnapshotOfCurrentUser ==
    user = Other =>
        /\ userAccess = {} /\ userRequests = EmptyMap
        /\ \A ld \in BagToSet(loads) : ld.user = Other => ld.acc = {} /\ ld.req = EmptyMap

\* C20: every catalog load in flight ends, however its queries end; and when
\* the loads of a signed-in user have ended, the loading flag is false and a
\* catalog (assembled or built-in) is set.
C20_LoadsFinishAndClearLoading ==
    /\ [](mounted /\ user # NoUser /\ loads = EmptyBag =>
              ~loading /\ subjects # <<>>)
    /\ [][\A ld \in BagToSet(loads), o \in LoadOutcomes : LoadDone(ld, o) =>
              ~loading' /\ subjects' # <<>>]_vars
    /\ \A n \in 1..MaxLoads :
          (BagCardinality(loads) = n) ~> (BagCardinality(loads) < n)

\* C20 witness: the last load in flight has ended with a thrown query (the
\* built-in catalog is shown) and the loading flag is false.
C20_Witness ==
    /\ mounted /\ user = Me
    /\ loads = EmptyBag
    /\ subjects = getDefaultSubjects
    /\ ~loading

\* C21: the request map a successful fetch has written maps every lesson to
\* the status of the row of that lesson created last (the backend of this
\* specification does not change, and every fetch in it succeeds).
C21_LatestRowWins ==
    \A l \in DOMAIN userRequests :
        LET mine == SelectSeq(dbRequests, LAMBDA r : r.user_id = user /\ r.lesson_id = l)
        IN  mine # <<>> /\ userRequests[l] = mine[Len(mine)].status

\* C22: every request row the backend holds for the current user stems from
\* a successful submission of this session, which set the lesson's local
\* status to pending; as long as the row is there, the request map has an
\* entry for its lesson.
C22_PendingNotLost ==
    \A i \in DOMAIN dbRequests :
        dbRequests[i].user_id = user => dbRequests[i].lesson_id \in DOMAIN userRequests

\* C23: when no query of the snapshot and no catalog load is in flight, every
\* lesson of the catalog shown to the signed-in user carries the hasAccess
\* and the requestStatus that the held access set and request map give it.
C23_CatalogFromHeldSnapshot ==
    (/\ mounted /\ user # NoUser
     /\ loads = EmptyBag /\ accFetches = EmptyBag /\ reqFetches = EmptyBag) =>
        \A s \in DOMAIN subjects : \A i \in DOMAIN subjects[s].lessons :
            LET lesson == subjects[s].lessons[i]
            IN  /\ lesson.hasAccess = (lesson.id \in userAccess)
                /\ lesson.requestStatus = OrElse(MapGet(userRequests, lesson.id), "none")

\* C24: while the lessons of a subject are shown (the view is open and the
\* loader is not up), the lessons the view holds, with their hasAccess and
\* requestStatus, are those of that subject in the catalog.
C24_OpenViewShowsCatalog ==
    (mounted /\ ~loading /\ currentView = "lessons" /\ selectedSubject # NoSubject) =>
        \A s \in DOMAIN subjects :
            subjects[s].id = selectedSubject.id =>
                subjects[s].lessons = selectedSubject.lessons
====
